---- MODULE Spec2Model ----
(***************************************************************************)
(* The admin endpoint of pelikan: src/core/admin/src/lib.rs.               *)
(*                                                                         *)
(* One thread runs Admin::run: poll, handle every event of the batch       *)
(* (listener, waker, session), drain the signal queue, flush the log.      *)
(* The poller, the listener, the transport of every session, the parent    *)
(* thread and the clients are the environment; every result they can hand  *)
(* to the loop is a nondeterministic choice.                               *)
(*                                                                         *)
(* The handlers are written as relations: an operator takes the state of   *)
(* the Admin object (a record) and gives the set of states the handler can *)
(* leave it in, one per outcome of the I/O it performs.  The field ret is  *)
(* the io::Result of the last call: "Ok", "WouldBlock" or "Err".           *)
(***************************************************************************)
EXTENDS Integers, Sequences, FiniteSets, TLC

\* ---------------------------------------------------------------- bounds
\* what the environment does over a run, in units: a connection opened, a
\* signal sent, a session event or a spurious listener event delivered, a
\* request line or the beginning of one sent, an I/O call failed
MaxEnv == 5
\* connections the clients open over a run
MaxConns == 2
\* complete request lines one fill can deliver
MaxFill == 2
\* events one poll can deliver (config.nevent())
nevent == 2

\* ------------------------------------------------------------- constants
\* usize::MAX, narrowed to the width of the model checker's integers
UsizeMax == 2147483647
LISTENER_TOKEN == UsizeMax - 1
WAKER_TOKEN == UsizeMax

\* the version AdminBuilder::new sets, and the one the server then
\* configures with AdminBuilder::version
DefaultVersion == "unknown"
ConfiguredVersion == "0.3.1"

Signal == {"FlushAll", "Shutdown"}
\* the request lines a client can send; "foo" is a line the parser rejects
Frames == {"flush_all", "quit", "stats", "version", "foo"}
AdminRequest == {"FlushAll", "Quit", "Stats", "Version"}

SessionTokens == 0 .. (MaxConns - 1)
Tokens == SessionTokens \cup {LISTENER_TOKEN, WAKER_TOKEN}

VARIABLES
    pc,               \* where run is: "poll", "events", "signals", "returned"
    events,           \* the tokens of the batch poll delivered, not yet handled
    backlog,          \* Admin.backlog
    listenq,          \* connections waiting in the listen queue
    sessions,         \* Admin.sessions: slab key -> session
    slab_free,        \* the slab's list of vacant keys, last freed first
    waker,            \* the waker is armed: wake() since the last reset()
    signal_queue_rx,  \* Admin.signal_queue_rx: signals sent by the parent
    signal_queue_tx,  \* calls of try_send_all(s) on Admin.signal_queue_tx, per signal
    log_pending,      \* the log holds entries the drain has not flushed
    metrics,          \* the counters and the gauge
    version,          \* Admin.version
    use_tls,          \* the listener wraps connections in TLS
    enqueued,         \* history: the responses sent on the session last at each key
    flush_parsed,     \* history: flush_all requests the parser has returned
    budget,           \* history: the units the environment has left
    nconns,           \* history: connections the clients have opened
    ev                \* history: what the last handler did

vars == <<pc, events, backlog, listenq, sessions, slab_free, waker,
          signal_queue_rx, signal_queue_tx, log_pending, metrics, version,
          use_tls, enqueued, flush_parsed, budget, nconns, ev>>

ADMIN_REQUEST_PARSE == metrics.ADMIN_REQUEST_PARSE
ADMIN_RESPONSE_COMPOSE == metrics.ADMIN_RESPONSE_COMPOSE
ADMIN_EVENT_ERROR == metrics.ADMIN_EVENT_ERROR
ADMIN_EVENT_WRITE == metrics.ADMIN_EVENT_WRITE
ADMIN_EVENT_READ == metrics.ADMIN_EVENT_READ
ADMIN_SESSION_ACCEPT == metrics.ADMIN_SESSION_ACCEPT
ADMIN_SESSION_ACCEPT_EX == metrics.ADMIN_SESSION_ACCEPT_EX
ADMIN_SESSION_ACCEPT_OK == metrics.ADMIN_SESSION_ACCEPT_OK
ADMIN_SESSION_CLOSE == metrics.ADMIN_SESSION_CLOSE
ADMIN_SESSION_CURR == metrics.ADMIN_SESSION_CURR

\* ------------------------------------------------------------ the history
NoEv ==
    [kind |-> "none", tok |-> 0, flags |-> {}, fill |-> "none",
     parse |-> "none", sent |-> <<>>, bcast |-> "none", wflush |-> "none",
     rflush |-> "none", rereg |-> "none", hs |-> "none", hsrereg |-> "none",
     closed |-> FALSE,
     accepts |-> <<>>, signal |-> "none", poll |-> "none"]

\* the handlers of one iteration keep the result of its poll
NewEv(kind, tok) == [NoEv EXCEPT !.kind = kind, !.tok = tok, !.poll = ev.poll]

\* ---------------------------------------------------------- the sessions
\* rbuf: the complete request lines read and not parsed; partial: an
\* incomplete line follows them; pending: responses composed and not yet
\* written to the socket; reg: the interest registered with the poller;
\* hs: the TLS handshake is still negotiating
NoSession ==
    [rbuf |-> <<>>, partial |-> FALSE, pending |-> 0, reg |-> {}, hs |-> FALSE]

\* ------------------------------------------------- the Admin as a record
Self ==
    [backlog |-> backlog, listenq |-> listenq, sessions |-> sessions,
     slab_free |-> slab_free, waker |-> waker,
     signal_queue_tx |-> signal_queue_tx, log_pending |-> log_pending,
     metrics |-> metrics, enqueued |-> enqueued, budget |-> budget,
     flush_parsed |-> flush_parsed, ev |-> NoEv, ret |-> "Ok",
     val |-> "none", conn |-> NoSession, done |-> FALSE]

Commit(st) ==
    /\ backlog' = st.backlog
    /\ listenq' = st.listenq
    /\ sessions' = st.sessions
    /\ slab_free' = st.slab_free
    /\ waker' = st.waker
    /\ signal_queue_tx' = st.signal_queue_tx
    /\ log_pending' = st.log_pending
    /\ metrics' = st.metrics
    /\ enqueued' = st.enqueued
    /\ flush_parsed' = st.flush_parsed
    /\ budget' = st.budget
    /\ ev' = st.ev

Ret(st, r) == [st EXCEPT !.ret = r]
is_err(st) == st.ret # "Ok"
increment(st, c) == [st EXCEPT !.metrics[c] = @ + 1]
decrement(st, c) == [st EXCEPT !.metrics[c] = @ - 1]

\* the environment spends n units, if it has them
Spend(st, n) == IF st.budget >= n THEN {[st EXCEPT !.budget = @ - n]} ELSE {}
\* an I/O call fails
Fail(st) == Spend(Ret(st, "Err"), 1)

\* the set of states f can leave any state of S in
Then(S, f(_)) == UNION {f(s) : s \in S}


\* ------------------------------------------ the session's own operations
\* ServerSession::new(Session::from(v), ..): a TLS stream starts negotiating
new_session(tls) == [NoSession EXCEPT !.hs = tls]

write_pending(s) == s.pending
remaining(s) == Len(s.rbuf) + (IF s.partial THEN 1 ELSE 0)

\* readable, and writable while there is something to write or negotiate
interest(s) == IF s.hs \/ s.pending > 0 THEN {"r", "w"} ELSE {"r"}

\* what one fill can append: up to MaxFill request lines
FillData == UNION {[1 .. n -> Frames] : n \in 0 .. MaxFill}

\* session.fill(): Ok(0) on an orderly close, Ok(n) with n bytes appended,
\* would-block when nothing is there to read (always, while the handshake
\* negotiates), or a transport error
fill(st, t) ==
    LET s == st.sessions[t]
        out(r) == [st EXCEPT !.ret = r, !.ev.fill = r]
    IN  {out("WouldBlock")} \cup Fail(out("Err"))
        \cup (IF s.hs THEN {} ELSE
              {out("Ok0")}
              \cup UNION {Spend([st EXCEPT !.ret = "Ok", !.ev.fill = "Ok",
                                          !.sessions[t].rbuf = @ \o x[1],
                                          !.sessions[t].partial = x[2]],
                                 Len(x[1]) + (IF x[2] THEN 1 ELSE 0))
                           : x \in {y \in FillData \X BOOLEAN :
                                      y[1] # <<>> \/ y[2]}})

\* the request lines the parser accepts
Verbs == {"flush_all", "quit", "stats", "version"}

request_of(frame) ==
    CASE frame = "flush_all" -> "FlushAll"
      [] frame = "quit" -> "Quit"
      [] frame = "stats" -> "Stats"
      [] frame = "version" -> "Version"

\* session.receive(): parse one request off the inbound buffer; would-block
\* on an incomplete line, an error on a line that is no request
receive(st, t) ==
    LET s == st.sessions[t] IN
    IF s.rbuf = <<>>
    THEN [st EXCEPT !.ret = "WouldBlock", !.ev.parse = "WouldBlock"]
    ELSE IF Head(s.rbuf) \notin Verbs
    THEN [st EXCEPT !.ret = "Err", !.ev.parse = "Err"]
    ELSE LET r == request_of(Head(s.rbuf)) IN
         [st EXCEPT !.ret = "Ok", !.val = r, !.ev.parse = r,
                    !.sessions[t].rbuf = Tail(@),
                    !.flush_parsed = IF r = "FlushAll" THEN @ + 1 ELSE @]

\* the responses
ResponseOk == [type |-> "Ok", arg |-> ""]
ResponseStats == [type |-> "Stats", arg |-> ""]
ResponseVersion(v) == [type |-> "Version", arg |-> v]

\* session.send(response): compose the response into the outbound buffer
send(st, t, response) ==
    [st EXCEPT !.ret = "Ok",
               !.sessions[t].pending = @ + 1,
               !.enqueued[t] = Append(@, response),
               !.ev.sent = Append(@, response)]

\* session.flush(): write the outbound buffer to the socket; Ok may leave
\* some of it pending
flush(st, t) ==
    LET s == st.sessions[t] IN
    IF s.pending = 0 THEN {Ret(st, "Ok")}
    ELSE {[st EXCEPT !.ret = "Ok", !.sessions[t].pending = p]
            : p \in 0 .. (s.pending - 1)}
         \cup {Ret(st, "WouldBlock")} \cup Fail(st)

\* session.reregister(registry, token, interest)
\* (site: the field of the history that keeps the outcome)
reregister(st, t, i, site) ==
    {[st EXCEPT !.ret = "Ok", !.sessions[t].reg = i, !.ev[site] = "Ok"]}
    \cup Fail([st EXCEPT !.ev[site] = "Err"])

\* session.register(registry, token, interest), on the accepted connection
register(st, i) ==
    {[st EXCEPT !.ret = "Ok", !.conn.reg = i]} \cup Fail(st)

\* session.do_handshake(): nothing to do once the handshake is over
do_handshake(st, t) ==
    LET out(r) == [st EXCEPT !.ret = r, !.ev.hs = r] IN
    IF ~st.sessions[t].hs THEN {out("Ok")}
    ELSE {[out("Ok") EXCEPT !.sessions[t].hs = FALSE], out("WouldBlock")}
         \cup Fail(out("Err"))

\* listener.accept(): a connection off the listen queue, would-block when
\* the queue is empty, or an error (which may or may not cost a connection)
listener_accept(st) ==
    IF st.listenq = 0 THEN {Ret(st, "WouldBlock")} \cup Fail(st)
    ELSE {[st EXCEPT !.ret = "Ok", !.listenq = @ - 1,
                     !.conn = new_session(use_tls)]}
         \cup Fail(st) \cup Fail([st EXCEPT !.listenq = @ - 1])

\* sessions.vacant_entry().key(): the key last freed, else the next new one
vacant_key(st) ==
    IF st.slab_free # <<>> THEN Head(st.slab_free)
    ELSE Cardinality(DOMAIN st.sessions)

\* VacantEntry::insert(session)
insert(st, key) ==
    [st EXCEPT !.sessions = [k \in DOMAIN @ \cup {key} |->
                               IF k = key THEN st.conn ELSE @[k]],
               !.slab_free = IF @ # <<>> THEN Tail(@) ELSE @,
               !.enqueued[key] = <<>>]

\* sessions.remove(key)
remove(st, key) ==
    [st EXCEPT !.sessions = [k \in DOMAIN @ \ {key} |-> @[k]],
               !.slab_free = <<key>> \o @]

\* signal_queue_tx.try_send_all(signal): best effort, to every sibling
try_send_all(st, signal) ==
    LET sent(r) == [st EXCEPT !.ret = r, !.signal_queue_tx[signal] = @ + 1,
                              !.ev.bcast = r]
    IN  {sent("Ok")} \cup Fail(sent("Err"))

\* signal_queue_tx.wake(): wake every sibling
wake_all(st) == {Ret(st, "Ok")} \cup Fail(st)

\* waker.wake() and waker.reset()
wake(st) == [st EXCEPT !.waker = TRUE]
reset(st) == [st EXCEPT !.waker = FALSE]

\* log_drain.flush()
log_flush(st) == [st EXCEPT !.log_pending = FALSE]
\* info!, error!: an entry for the drain
log(st) == [st EXCEPT !.log_pending = TRUE]

\* ------------------------------------------------------------ the handlers
\* map_err: would-block is no error
map_err(st) == IF st.ret = "WouldBlock" THEN Ret(st, "Ok") ELSE st

\* history: the outcome of one call of accept
note_accept(st, what) == [st EXCEPT !.ev.accepts = Append(@, what)]

push_back(st, token) == [st EXCEPT !.backlog = Append(@, token)]

\* (changed: the listener is not visited again)
accept_ok_once(st) ==
    LET key == vacant_key(st) IN
    {IF r.ret = "Ok"
     THEN note_accept(
              insert(increment(increment(r, "ADMIN_SESSION_ACCEPT_OK"),
                               "ADMIN_SESSION_CURR"), key), "ok")
     ELSE note_accept(increment(r, "ADMIN_SESSION_ACCEPT_EX"), "regfail")
       : r \in register(st, interest(st.conn))}

\* (changed: a connection that is not registered is kept)
accept_ok_keeps(st) ==
    LET key == vacant_key(st) IN
    {wake(push_back(
        IF r.ret = "Ok"
        THEN note_accept(
                 insert(increment(increment(r, "ADMIN_SESSION_ACCEPT_OK"),
                                  "ADMIN_SESSION_CURR"), key), "ok")
        ELSE note_accept(
                 insert(increment(increment(r, "ADMIN_SESSION_ACCEPT_EX"),
                                  "ADMIN_SESSION_CURR"), key), "regfail"),
        LISTENER_TOKEN))
       : r \in register(st, interest(st.conn))}

\* Admin::accept, the connection accepted: register, insert and count it, or
\* count the failure; either way come back for the next one
accept_ok(st) ==
    LET key == vacant_key(st) IN
    {wake(push_back(
        IF r.ret = "Ok"
        THEN note_accept(
                 insert(increment(increment(r, "ADMIN_SESSION_ACCEPT_OK"),
                                  "ADMIN_SESSION_CURR"), key), "ok")
        ELSE note_accept(increment(r, "ADMIN_SESSION_ACCEPT_EX"), "regfail"),
        LISTENER_TOKEN))
       : r \in register(st, interest(st.conn))}

\* (changed: no error is retried)
accept_err_gives_up(st) ==
    IF st.ret # "WouldBlock"
    THEN note_accept(increment(st, "ADMIN_SESSION_ACCEPT_EX"), "error")
    ELSE note_accept(st, "wouldblock")

\* (changed: the entry is pushed and the waker left alone)
accept_err_unwoken(st) ==
    IF st.ret # "WouldBlock"
    THEN push_back(
             note_accept(increment(st, "ADMIN_SESSION_ACCEPT_EX"), "error"),
             LISTENER_TOKEN)
    ELSE note_accept(st, "wouldblock")

\* Admin::accept, the accept failed
accept_err(st) ==
    IF st.ret # "WouldBlock"
    THEN wake(push_back(
             note_accept(increment(st, "ADMIN_SESSION_ACCEPT_EX"), "error"),
             LISTENER_TOKEN))
    ELSE note_accept(st, "wouldblock")

\* (changed: the attempt is not counted)
accept_uncounted(st) ==
    Then(listener_accept(st),
         LAMBDA a : IF a.ret = "Ok" THEN accept_ok(a) ELSE {accept_err(a)})

\* Admin::accept: call accept one time
accept(st) ==
    Then(listener_accept(increment(st, "ADMIN_SESSION_ACCEPT")),
         LAMBDA a : IF a.ret = "Ok" THEN accept_ok(a) ELSE {accept_err(a)})

\* (changed: a failed broadcast is propagated)
request_flush_all_propagates(st, token) ==
    {IF is_err(b) THEN b ELSE send(b, token, ResponseOk)
       : b \in try_send_all(st, "FlushAll")}

\* Admin::read, AdminRequest::FlushAll: tell the siblings, whatever comes of
\* it, and answer Ok
request_flush_all(st, token) ==
    {send(b, token, ResponseOk) : b \in try_send_all(st, "FlushAll")}

\* (changed: a reply, and no hangup)
request_quit_replies(st, token) == {send(st, token, ResponseOk)}

\* (changed: no hangup)
request_quit_stays(st, token) == {Ret(st, "Ok")}

\* Admin::read, AdminRequest::Quit: an error, for the caller to hang up
request_quit(st, token) == {Ret(st, "Err")}

\* Admin::read, AdminRequest::Stats
request_stats(st, token) == {send(st, token, ResponseStats)}

\* (changed: the version the builder starts with)
request_version_default(st, token) ==
    {send(st, token, ResponseVersion(DefaultVersion))}

\* Admin::read, AdminRequest::Version
request_version(st, token) == {send(st, token, ResponseVersion(version))}

\* Admin::read, the request handled: the match on the request, then the
\* count of the response of those that did not return
handle_request(st, token, request) ==
    {IF is_err(h) THEN h ELSE increment(h, "ADMIN_RESPONSE_COMPOSE")
       : h \in CASE request = "FlushAll" -> request_flush_all(st, token)
                 [] request = "Quit" -> request_quit(st, token)
                 [] request = "Stats" -> request_stats(st, token)
                 [] request = "Version" -> request_version(st, token)}

\* (changed: no reregister for the bytes left to write)
flush_response_unparsed_only(st, token) ==
    Then({[map_err(f) EXCEPT !.ev.rflush = f.ret] : f \in flush(st, token)},
         LAMBDA f :
           IF is_err(f) THEN {f}
           ELSE IF remaining(f.sessions[token]) > 0
           THEN reregister(f, token, interest(f.sessions[token]), "rereg")
           ELSE {Ret(f, "Ok")})

\* Admin::read, after the response: flush, then reregister if bytes are left
\* either way
flush_response(st, token) ==
    Then({[map_err(f) EXCEPT !.ev.rflush = f.ret] : f \in flush(st, token)},
         LAMBDA f :
           IF is_err(f) THEN {f}
           ELSE IF write_pending(f.sessions[token]) > 0
                   \/ remaining(f.sessions[token]) > 0
           THEN reregister(f, token, interest(f.sessions[token]), "rereg")
           ELSE {Ret(f, "Ok")})

\* (changed: every parse error is taken for an incomplete request)
parse_err_skips(st) == Ret(st, "Ok")

\* Admin::read, the parse failed: would-block is an incomplete request
parse_err(st) == IF st.ret = "WouldBlock" THEN Ret(st, "Ok") ELSE st

\* Admin::read
read(st, token) ==
    IF token \notin DOMAIN st.sessions THEN {Ret(st, "Err")}
    ELSE Then(fill(st, token), LAMBDA f :
           IF f.ret = "Ok0" THEN {Ret(f, "Err")}
           ELSE IF f.ret # "Ok" THEN {f}
           ELSE LET r == receive(f, token) IN
                IF r.ret = "Ok"
                THEN Then(handle_request(
                              increment(r, "ADMIN_REQUEST_PARSE"), token, r.val),
                          LAMBDA h : IF is_err(h) THEN {h}
                                     ELSE flush_response(h, token))
                ELSE {parse_err(r)})

\* Admin::write
write(st, token) ==
    IF token \notin DOMAIN st.sessions THEN {Ret(st, "Err")}
    ELSE {[map_err(f) EXCEPT !.ev.wflush = f.ret] : f \in flush(st, token)}

\* (changed: the gauge is left as it is)
close_keeps_gauge(st, token) ==
    IF token \in DOMAIN st.sessions
    THEN [remove(increment(st, "ADMIN_SESSION_CLOSE"), token)
            EXCEPT !.ev.closed = TRUE]
    ELSE st

\* (changed: the slab is not asked whether it holds the token)
close_unchecked(st, token) ==
    [remove(decrement(increment(st, "ADMIN_SESSION_CLOSE"),
                      "ADMIN_SESSION_CURR"), token)
       EXCEPT !.ev.closed = TRUE]

\* Admin::close: closes the session with the given token
close(st, token) ==
    IF token \in DOMAIN st.sessions
    THEN [remove(decrement(increment(st, "ADMIN_SESSION_CLOSE"),
                           "ADMIN_SESSION_CURR"), token)
            EXCEPT !.ev.closed = TRUE]
    ELSE st

\* Admin::handshake
handshake(st, token) ==
    IF token \notin DOMAIN st.sessions THEN {Ret(st, "Err")}
    ELSE Then(do_handshake(st, token), LAMBDA h :
           IF h.ret = "Ok" /\ remaining(h.sessions[token]) > 0
           THEN reregister(h, token, interest(h.sessions[token]), "hsrereg")
           ELSE {h})

\* (changed: a failed write does not end the event)
event_write_goes_on(st, event) ==
    IF ~event.writable THEN {st}
    ELSE {IF is_err(w) THEN close(w, event.token) ELSE w
            : w \in write(increment(st, "ADMIN_EVENT_WRITE"), event.token)}

\* Admin::session_event, the writable part
event_write(st, event) ==
    IF ~event.writable THEN {st}
    ELSE {IF is_err(w) THEN [close(w, event.token) EXCEPT !.done = TRUE] ELSE w
            : w \in write(increment(st, "ADMIN_EVENT_WRITE"), event.token)}

\* (changed: a failed read does not close)
event_read_keeps(st, event) ==
    IF st.done \/ ~event.readable THEN {st}
    ELSE {IF is_err(r) THEN [r EXCEPT !.done = TRUE] ELSE r
            : r \in read(increment(st, "ADMIN_EVENT_READ"), event.token)}

\* Admin::session_event, the readable part
event_read(st, event) ==
    IF st.done \/ ~event.readable THEN {st}
    ELSE {IF is_err(r) THEN [close(r, event.token) EXCEPT !.done = TRUE] ELSE r
            : r \in read(increment(st, "ADMIN_EVENT_READ"), event.token)}

\* (changed: a handshake that would block closes)
event_handshake_strict(st, event) ==
    IF st.done THEN {st}
    ELSE {IF h.ret = "Ok" THEN h ELSE close(h, event.token)
            : h \in handshake(st, event.token)}

\* Admin::session_event, the handshake that ends it
event_handshake(st, event) ==
    IF st.done THEN {st}
    ELSE {IF h.ret \in {"Ok", "WouldBlock"} THEN h ELSE close(h, event.token)
            : h \in handshake(st, event.token)}

\* (changed: the error flag is not looked at)
session_event_ignores_error(st, event) ==
    Then(Then(event_write(st, event),
              LAMBDA w : event_read(w, event)),
         LAMBDA r : event_handshake(r, event))

\* Admin::session_event: handle a single session event
session_event(st, event) ==
    IF event.error
    THEN {close(increment(st, "ADMIN_EVENT_ERROR"), event.token)}
    ELSE Then(Then(event_write(st, event),
                   LAMBDA w : event_read(w, event)),
              LAMBDA r : event_handshake(r, event))

\* Admin::run, the waker's event: one accept for each listener token of the
\* backlog as it was drained
RECURSIVE accept_each(_, _)
accept_each(S, tokens) ==
    IF tokens = <<>> THEN S
    ELSE accept_each(
             IF Head(tokens) = LISTENER_TOKEN THEN Then(S, accept) ELSE S,
             Tail(tokens))

\* (changed: the waker is reset after the accepts)
waker_event_resets_last(st) ==
    {reset(s) : s \in accept_each({[st EXCEPT !.backlog = <<>>]}, st.backlog)}

waker_event(st) ==
    accept_each({[reset(st) EXCEPT !.backlog = <<>>]}, st.backlog)

\* fatal!: an entry of the highest severity
fatal(st) == log(st)

\* (changed: the siblings are woken and not told)
shutdown_untold(st) ==
    {log_flush(IF is_err(w) THEN fatal(w) ELSE w) : w \in wake_all(log(st))}

\* (changed: a session is closed on the way out)
shutdown_closes(st) ==
    LET hangup(x) ==
          IF DOMAIN x.sessions = {} THEN x
          ELSE close(x, CHOOSE t \in DOMAIN x.sessions : TRUE)
    IN  Then(try_send_all(log(st), "Shutdown"),
             LAMBDA b : {log_flush(hangup(IF is_err(w) THEN fatal(w) ELSE w))
                           : w \in wake_all(b)})

\* Admin::run, a Shutdown received: tell the siblings, wake them, flush the log
shutdown(st) ==
    Then(try_send_all(log(st), "Shutdown"),
         LAMBDA b : {log_flush(IF is_err(w) THEN fatal(w) ELSE w)
                       : w \in wake_all(b)})

\* --------------------------------------------------------------- the loop
\* the batches a poll can deliver: at most nevent events, one per token
Batches ==
    {b \in UNION {[1 .. n -> Tokens] : n \in 0 .. nevent} :
       \A i, j \in DOMAIN b : i # j => b[i] # b[j]}

Has(b, token) == \E i \in DOMAIN b : b[i] = token

\* the poller can hold an event for a key the slab has handed out: of a
\* session, or of one closed since
Registered(token) ==
    \/ token \in DOMAIN sessions
    \/ \E i \in DOMAIN slab_free : slab_free[i] = token

\* what a batch costs the environment: its session events, and a listener
\* event when no connection waits
CostOf(b) ==
    Cardinality({i \in DOMAIN b : b[i] \in SessionTokens})
    + (IF Has(b, LISTENER_TOKEN) /\ listenq = 0 THEN 1 ELSE 0)

EventFlags ==
    {f \in [error : BOOLEAN, readable : BOOLEAN, writable : BOOLEAN] :
       f.error \/ f.readable \/ f.writable}

Init ==
    /\ pc = "poll"
    /\ events = <<>>
    /\ backlog = <<>>
    /\ listenq = 0
    /\ sessions = <<>>
    /\ slab_free = <<>>
    /\ waker = FALSE
    /\ signal_queue_rx = <<>>
    /\ signal_queue_tx = [s \in Signal |-> 0]
    /\ log_pending = TRUE
    /\ metrics = [c \in {"ADMIN_REQUEST_PARSE", "ADMIN_RESPONSE_COMPOSE",
                         "ADMIN_EVENT_ERROR", "ADMIN_EVENT_WRITE",
                         "ADMIN_EVENT_READ", "ADMIN_SESSION_ACCEPT",
                         "ADMIN_SESSION_ACCEPT_EX", "ADMIN_SESSION_ACCEPT_OK",
                         "ADMIN_SESSION_CLOSE", "ADMIN_SESSION_CURR"} |-> 0]
    /\ version = ConfiguredVersion
    /\ use_tls \in BOOLEAN
    /\ enqueued = [t \in SessionTokens |-> <<>>]
    /\ flush_parsed = 0
    /\ budget = MaxEnv
    /\ nconns = 0
    /\ ev = NoEv

\* (changed: a failed poll ends run)
after_poll_aborts(ok, b) ==
    IF ~ok THEN "returned" ELSE IF b = <<>> THEN "signals" ELSE "events"

\* run, after poll: an error is logged and the loop goes on, to the events
\* if there are any and to the signals
after_poll(ok, b) == IF b = <<>> THEN "signals" ELSE "events"

\* run, the top of the loop: poll; an error leaves no event
Poll ==
    /\ pc = "poll"
    /\ \E ok \in BOOLEAN, b \in Batches :
         /\ ~ok => b = <<>>
         /\ Has(b, WAKER_TOKEN) => waker
         /\ \A i \in DOMAIN b : b[i] \in SessionTokens => Registered(b[i])
         /\ CostOf(b) + (IF ok THEN 0 ELSE 1) <= budget
         /\ budget' = budget - CostOf(b) - (IF ok THEN 0 ELSE 1)
         /\ events' = b
         /\ pc' = after_poll(ok, b)
         /\ log_pending' = (log_pending \/ ~ok)
         /\ ev' = [NoEv EXCEPT !.kind = "poll",
                               !.poll = IF ok THEN "Ok" ELSE "Err"]
    /\ UNCHANGED <<backlog, listenq, sessions, slab_free, waker,
                   signal_queue_rx, signal_queue_tx, metrics, version, use_tls,
                   enqueued, flush_parsed, nconns>>

\* run, the next event of the batch
NextEvent ==
    /\ events' = Tail(events)
    /\ pc' = IF Tail(events) = <<>> THEN "signals" ELSE "events"
    /\ UNCHANGED <<signal_queue_rx, version, use_tls, nconns>>

ListenerEvent ==
    /\ pc = "events"
    /\ Head(events) = LISTENER_TOKEN
    /\ \E st \in accept([Self EXCEPT !.ev = NewEv("listener", LISTENER_TOKEN)]) :
         Commit(st)
    /\ NextEvent

WakerEvent ==
    /\ pc = "events"
    /\ Head(events) = WAKER_TOKEN
    /\ \E st \in waker_event([Self EXCEPT !.ev = NewEv("waker", WAKER_TOKEN)]) :
         Commit(st)
    /\ NextEvent

SessionEvent ==
    /\ pc = "events"
    /\ Head(events) \in SessionTokens
    /\ \E f \in EventFlags :
         \E st \in session_event(
                       [Self EXCEPT !.ev = [NewEv("session", Head(events))
                                              EXCEPT !.flags = f]],
                       [token |-> Head(events), error |-> f.error,
                        readable |-> f.readable, writable |-> f.writable]) :
           Commit(st)
    /\ NextEvent

\* (changed: run goes on after a Shutdown)
after_signal_goes_on(signal) == "signals"

\* run, the match on the signal: Shutdown returns, FlushAll goes on draining
after_signal(signal) == IF signal = "Shutdown" THEN "returned" ELSE "signals"

\* run, the signals: one signal off the queue
RecvSignal ==
    /\ pc = "signals"
    /\ signal_queue_rx # <<>>
    /\ LET signal == Head(signal_queue_rx)
           st0 == [Self EXCEPT !.ev = [NewEv("signal", 0) EXCEPT !.signal = signal]]
       IN  /\ signal_queue_rx' = Tail(signal_queue_rx)
           /\ pc' = after_signal(signal)
           /\ IF signal = "Shutdown"
              THEN \E st \in shutdown(st0) : Commit(st)
              ELSE Commit(st0)
    /\ UNCHANGED <<events, version, use_tls, nconns>>

\* run, the end of an iteration: no signal is left, flush the log
EndIteration ==
    /\ pc = "signals"
    /\ signal_queue_rx = <<>>
    /\ Commit(log_flush([Self EXCEPT !.ev = NewEv("flush", 0)]))
    /\ pc' = "poll"
    /\ UNCHANGED <<events, signal_queue_rx, version, use_tls, nconns>>

\* ------------------------------------------------------- the environment
\* the parent thread sends a signal
ParentSend ==
    /\ budget > 0
    /\ \E s \in Signal : signal_queue_rx' = Append(signal_queue_rx, s)
    /\ budget' = budget - 1
    /\ UNCHANGED <<pc, events, backlog, listenq, sessions, slab_free, waker,
                   signal_queue_tx, log_pending, metrics, version, use_tls,
                   enqueued, flush_parsed, nconns, ev>>

\* a client connects
ClientConnect ==
    /\ nconns < MaxConns
    /\ budget > 0
    /\ budget' = budget - 1
    /\ listenq' = listenq + 1
    /\ nconns' = nconns + 1
    /\ UNCHANGED <<pc, events, backlog, sessions, slab_free, waker,
                   signal_queue_rx, signal_queue_tx, log_pending, metrics,
                   version, use_tls, enqueued, flush_parsed, ev>>

Run == Poll \/ ListenerEvent \/ WakerEvent \/ SessionEvent \/ RecvSignal
       \/ EndIteration

Next == Run \/ ParentSend \/ ClientConnect

Spec == Init /\ [][Next]_vars

\* the thread of run is scheduled, and poll returns when its timeout ends
FairSpec == Spec /\ WF_vars(Run)

\* the poller reports the listener once only, before any accept: one
\* readiness edge for all the connections that wait
EdgePoll == Poll /\ (Has(events', LISTENER_TOKEN) => ADMIN_SESSION_ACCEPT = 0)

EdgeRun == EdgePoll \/ ListenerEvent \/ WakerEvent \/ SessionEvent
           \/ RecvSignal \/ EndIteration

EdgeNext == EdgeRun \/ ParentSend \/ ClientConnect

\* the waker is level-triggered: a poll reports it while it is armed
WakerPoll == Poll /\ Has(events', WAKER_TOKEN)

EdgeSpec ==
    Init /\ [][EdgeNext]_vars /\ WF_vars(EdgeRun) /\ SF_vars(EdgePoll /\ WakerPoll)

\* ------------------------------------------------------------ the claims
\* a step of run that handles one event of the batch
HandlerStep == pc = "events" /\ events' = Tail(events)
\* a step of run that takes one signal off the queue
SignalStep == pc = "signals" /\ Len(signal_queue_rx') < Len(signal_queue_rx)

\* the session of the last event is open
Open == ev.tok \in DOMAIN sessions

\* C1: run has broadcast Shutdown exactly once when it has returned, which
\* it does on a Shutdown it received, and never before: as long as run has
\* not received a Shutdown, no Shutdown has been broadcast.
C1_ShutdownBroadcastOnce ==
    /\ signal_queue_tx["Shutdown"] = (IF pc = "returned" THEN 1 ELSE 0)
    /\ pc = "returned" => ev.kind = "signal" /\ ev.signal = "Shutdown"

\* run has returned, with a second Shutdown of the parent left in the queue
C1_Witness ==
    /\ pc = "returned"
    /\ signal_queue_tx["Shutdown"] = 1
    /\ signal_queue_rx = <<"Shutdown">>

\* C2: once the parent has sent a Shutdown, run returns; and the step that
\* takes the Shutdown off the queue broadcasts it, flushes the log and
\* returns, whatever the sessions, the backlog and the pending I/O are.
C2_ShutdownReturns ==
    /\ (\E i \in DOMAIN signal_queue_rx : signal_queue_rx[i] = "Shutdown")
          ~> (pc = "returned")
    /\ [][SignalStep /\ Head(signal_queue_rx) = "Shutdown"
            => /\ pc' = "returned"
               /\ signal_queue_tx'["Shutdown"] = signal_queue_tx["Shutdown"] + 1
               /\ ~log_pending'
               /\ sessions' = sessions /\ backlog' = backlog]_vars

\* run has returned with a session open that has a response pending, and
\* with a listener token in the backlog
C2_Witness ==
    /\ pc = "returned"
    /\ backlog # <<>>
    /\ \E t \in DOMAIN sessions : sessions[t].pending > 0

\* C3: run returns only in the step that takes a Shutdown off the signal
\* queue; until then the loop always has a next step, whatever has failed;
\* a failed poll leads to the signals, and the iteration ends with the log
\* flushed.
C3_OnlyShutdownReturns ==
    /\ [](pc # "returned" => ENABLED Run)
    /\ [](ev.kind = "poll" /\ ev.poll = "Err" => pc = "signals")
    /\ [][pc = "signals" /\ pc' # "signals" => ~log_pending']_vars
    /\ [][pc' = "returned" /\ pc # "returned"
            => SignalStep /\ Head(signal_queue_rx) = "Shutdown"]_vars

\* an iteration whose poll failed has ended, after an accept has failed and
\* a session has been closed, and run goes on
C3_Witness ==
    /\ pc = "poll"
    /\ ev.poll = "Err"
    /\ ~log_pending
    /\ ADMIN_SESSION_ACCEPT_EX > 0
    /\ ADMIN_SESSION_CLOSE > 0

\* C4: between any two handlers the gauge ADMIN_SESSION_CURR is the number
\* of sessions in the slab.
C4_CurrIsSlabSize == ADMIN_SESSION_CURR = Cardinality(DOMAIN sessions)

\* two sessions have been accepted and one of them closed
C4_Witness ==
    /\ ADMIN_SESSION_ACCEPT_OK = 2
    /\ ADMIN_SESSION_CLOSE = 1
    /\ Cardinality(DOMAIN sessions) = 1

\* the response each request is answered with
ResponseTo(request) ==
    CASE request = "FlushAll" -> <<ResponseOk>>
      [] request = "Stats" -> <<ResponseStats>>
      [] request = "Version" -> <<ResponseVersion(version)>>
      [] request = "Quit" -> <<>>

\* C5: an event that parses a request enqueues one response on its session
\* and adds one to ADMIN_RESPONSE_COMPOSE, unless the request is Quit, for
\* which it enqueues nothing and leaves ADMIN_RESPONSE_COMPOSE; and nothing
\* else enqueues a response or changes ADMIN_RESPONSE_COMPOSE.
C5_OneResponsePerRequest ==
    [][/\ HandlerStep /\ ev'.parse \in AdminRequest
          => /\ ev'.sent = ResponseTo(ev'.parse)
             /\ enqueued' = [enqueued EXCEPT ![ev'.tok] = @ \o ev'.sent]
             /\ ADMIN_RESPONSE_COMPOSE'
                  = ADMIN_RESPONSE_COMPOSE + Len(ev'.sent)
             /\ Len(ev'.sent) = IF ev'.parse = "Quit" THEN 0 ELSE 1
       /\ ~(HandlerStep /\ ev'.parse \in AdminRequest)
          => /\ ADMIN_RESPONSE_COMPOSE' = ADMIN_RESPONSE_COMPOSE
             /\ \A t \in SessionTokens :
                  enqueued'[t] = enqueued[t] \/ enqueued'[t] = <<>>]_vars

\* a Quit has been parsed on a session that a response was enqueued on
C5_Witness ==
    /\ ev.parse = "Quit"
    /\ Len(enqueued[ev.tok]) = 1
    /\ ADMIN_RESPONSE_COMPOSE = 1
    /\ ADMIN_REQUEST_PARSE = 2

\* no I/O call of the last event failed
NoTransportError ==
    /\ ev.rflush # "Err"
    /\ ev.rereg # "Err"
    /\ ev.hsrereg # "Err"

\* C6: an event that parses a version request enqueues exactly one response,
\* the Version of the configured string, and adds one to ADMIN_REQUEST_PARSE
\* and one to ADMIN_RESPONSE_COMPOSE; the session stays open (it is closed
\* only if the transport fails in that event).
C6_VersionResponse ==
    [][HandlerStep /\ ev'.parse = "Version"
         => /\ ev'.tok \in DOMAIN sessions
            /\ ev'.sent = <<[type |-> "Version", arg |-> ConfiguredVersion]>>
            /\ enqueued'[ev'.tok] = enqueued[ev'.tok] \o ev'.sent
            /\ ADMIN_REQUEST_PARSE' = ADMIN_REQUEST_PARSE + 1
            /\ ADMIN_RESPONSE_COMPOSE' = ADMIN_RESPONSE_COMPOSE + 1
            /\ NoTransportError' => /\ Open' /\ ~ev'.closed
                                    /\ ADMIN_SESSION_CLOSE' = ADMIN_SESSION_CLOSE
            /\ ~NoTransportError' => ~Open']_vars

\* a version request has been answered and its session is open
C6_Witness ==
    /\ ev.parse = "Version"
    /\ Open
    /\ enqueued[ev.tok] = <<ResponseVersion(ConfiguredVersion)>>
    /\ ADMIN_REQUEST_PARSE = 1
    /\ ADMIN_RESPONSE_COMPOSE = 1

\* C7: FlushAll has been broadcast as often as a flush_all request has been
\* parsed: an event that parses one broadcasts once and enqueues Ok, also
\* when the broadcast fails; a FlushAll taken off the signal queue leaves
\* everything but the queue as it is.
C7_FlushAllFanOut ==
    /\ [](signal_queue_tx["FlushAll"] = flush_parsed)
    /\ [][HandlerStep /\ ev'.parse = "FlushAll"
            => /\ signal_queue_tx'
                    = [signal_queue_tx EXCEPT !["FlushAll"] = @ + 1]
               /\ ev'.bcast \in {"Ok", "Err"}
               /\ ev'.sent = <<ResponseOk>>
               /\ enqueued'[ev'.tok] = Append(enqueued[ev'.tok], ResponseOk)]_vars
    /\ [][SignalStep /\ Head(signal_queue_rx) = "FlushAll"
            => /\ pc' = "signals"
               /\ UNCHANGED <<events, backlog, listenq, sessions, slab_free,
                              waker, signal_queue_tx, metrics, enqueued>>]_vars

\* a flush_all request has been answered with Ok although its broadcast
\* failed, after a FlushAll of the parent was received
C7_Witness ==
    /\ ev.parse = "FlushAll"
    /\ ev.bcast = "Err"
    /\ enqueued[ev.tok] = <<ResponseOk>>
    /\ signal_queue_tx["FlushAll"] = 1

\* C8: an event that parses a quit request enqueues no response and closes
\* the session in that same event: the session leaves the slab,
\* ADMIN_SESSION_CLOSE grows by one and ADMIN_SESSION_CURR falls by one, the
\* one it grew by when the connection was accepted.
C8_QuitCloses ==
    [][HandlerStep /\ ev'.parse = "Quit"
         => /\ ev'.sent = <<>>
            /\ enqueued' = enqueued
            /\ ev'.tok \in DOMAIN sessions
            /\ DOMAIN sessions' = DOMAIN sessions \ {ev'.tok}
            /\ ADMIN_SESSION_CLOSE' = ADMIN_SESSION_CLOSE + 1
            /\ ADMIN_SESSION_CURR' = ADMIN_SESSION_CURR - 1
            /\ ADMIN_SESSION_CURR'
                 = ADMIN_SESSION_ACCEPT_OK' - ADMIN_SESSION_CLOSE']_vars

\* the only connection accepted has quit: the gauge is back at 0
C8_Witness ==
    /\ ev.parse = "Quit"
    /\ ev.closed
    /\ ADMIN_SESSION_ACCEPT_OK = 1
    /\ ADMIN_SESSION_CLOSE = 1
    /\ ADMIN_SESSION_CURR = 0

\* the response the claim expects for an unknown command
ResponseError == [type |-> "Error", arg |-> ""]

\* the last event found a line that is no request on a session whose one
\* request before it was a version request
VersionThenUnknown ==
    /\ ev.kind = "session"
    /\ ev.parse = "Err"
    /\ enqueued[ev.tok] # <<>>
    /\ enqueued[ev.tok][1] = ResponseVersion(version)
    /\ ADMIN_REQUEST_PARSE = 1

\* C9, as claimed: after a version request and then an unknown verb on a
\* session, Version and then Error have been enqueued and the session is
\* open.
C9_UnknownGetsError ==
    VersionThenUnknown
      => /\ enqueued[ev.tok] = <<ResponseVersion(version), ResponseError>>
         /\ Open

\* C9, as amended: after a version request and then an unknown verb on a
\* session, the Version is the only response enqueued and the session is
\* closed.
C9_UnknownCloses ==
    VersionThenUnknown
      => /\ enqueued[ev.tok] = <<ResponseVersion(version)>>
         /\ ev.sent = <<>>
         /\ ev.closed
         /\ ~Open

\* a version request was answered, and then the parser rejected a line
C9_Witness == VersionThenUnknown /\ ev.closed

\* C10: an event whose parse fails with an error other than would-block
\* closes the session and enqueues nothing; ADMIN_REQUEST_PARSE and
\* ADMIN_RESPONSE_COMPOSE stay as they are.
C10_FramingErrorCloses ==
    [][HandlerStep /\ ev'.parse = "Err"
         => /\ ev'.tok \in DOMAIN sessions
            /\ DOMAIN sessions' = DOMAIN sessions \ {ev'.tok}
            /\ ev'.closed
            /\ ADMIN_SESSION_CLOSE' = ADMIN_SESSION_CLOSE + 1
            /\ ev'.sent = <<>>
            /\ enqueued' = enqueued
            /\ ADMIN_REQUEST_PARSE' = ADMIN_REQUEST_PARSE
            /\ ADMIN_RESPONSE_COMPOSE' = ADMIN_RESPONSE_COMPOSE]_vars

\* the parser has rejected the first line of a session, which is closed
C10_Witness ==
    /\ ev.parse = "Err"
    /\ ev.fill = "Ok"
    /\ ev.closed
    /\ ADMIN_REQUEST_PARSE = 0
    /\ ADMIN_RESPONSE_COMPOSE = 0

\* C11: all the connections that wait in the listen queue when the one
\* listener event is handled are taken off the queue by accept, with no
\* other listener event, unless run returns on a Shutdown before.
C11_BacklogDrains ==
    \A k \in 1 .. MaxConns :
      (pc = "events" /\ Head(events) = LISTENER_TOKEN /\ nconns = k)
        ~> (nconns - listenq >= k \/ pc = "returned")

\* the waker's event has taken the second of two connections off the queue,
\* after the one listener event took the first
C11_Witness ==
    /\ ev.kind = "waker"
    /\ ev.accepts = <<"ok">>
    /\ ADMIN_SESSION_ACCEPT = 2
    /\ ADMIN_SESSION_ACCEPT_OK = 2
    /\ nconns = 2
    /\ listenq = 0

\* the session at key t holds a complete request that is not parsed yet
Buffered(t) ==
    /\ t \in DOMAIN sessions
    /\ sessions[t].rbuf # <<>>
    /\ Head(sessions[t].rbuf) \in Verbs

\* C12: the requests a fill left in the inbound buffer are parsed and
\* answered, in order, by the events that follow, also when the client
\* sends nothing more: a read whose fill finds no new bytes parses the first
\* request of the buffer and answers it.
C12_PipelinedParsed ==
    [][HandlerStep /\ ev'.kind = "session" /\ ev'.fill = "WouldBlock"
         /\ Buffered(ev'.tok)
         => /\ ev'.parse = request_of(Head(sessions[ev'.tok].rbuf))
            /\ ev'.sent = ResponseTo(ev'.parse)]_vars

\* C13, as claimed: after a session event that leaves the session open, the
\* session is registered for writable exactly when it has outbound bytes
\* pending (on a listener without TLS, where no handshake asks for more).
C13_WritableIffPending ==
    ev.kind = "session" /\ Open /\ ~use_tls
      => ("w" \in sessions[ev.tok].reg <=> sessions[ev.tok].pending > 0)

\* C13, as amended: a session with outbound bytes pending is registered for
\* writable, and every session for readable; an event that does not
\* reregister its session, as one whose write drains the outbound buffer,
\* leaves the registered interest as it is.
C13_PendingIsWritable ==
    /\ [](\A t \in DOMAIN sessions :
            /\ "r" \in sessions[t].reg
            /\ sessions[t].pending > 0 => "w" \in sessions[t].reg)
    /\ [][HandlerStep /\ ev'.kind = "session" /\ Open'
            /\ ev'.rereg = "none" /\ ev'.hsrereg = "none"
            => sessions'[ev'.tok].reg = sessions[ev'.tok].reg]_vars

\* a read has left a response pending and has reregistered its session for
\* writable
C13_Witness ==
    /\ ev.kind = "session"
    /\ Open
    /\ ev.rereg = "Ok"
    /\ sessions[ev.tok].pending > 0
    /\ sessions[ev.tok].reg = {"r", "w"}

\* C14: a read whose fill fails with would-block goes on as after a fill of
\* no bytes: it attempts a parse of what the buffer holds, and when that
\* finds no complete request the read is no error and the session stays
\* open (unless the handshake step of the event fails).
C14_FillWouldBlockIsSuccess ==
    [][HandlerStep /\ ev'.kind = "session" /\ ev'.fill = "WouldBlock"
         => /\ ev'.parse # "none"
            /\ ev'.parse = "WouldBlock" /\ ev'.hs # "Err" /\ ev'.hsrereg # "Err"
                 => Open' /\ ~ev'.closed]_vars

\* the calls of accept of the last handler that did not would-block
Retried(e) == {i \in DOMAIN e.accepts : e.accepts[i] # "wouldblock"}

\* C15: a call of accept pushes LISTENER_TOKEN on the backlog and wakes the
\* waker exactly when the accept returned a connection or failed with an
\* error other than would-block.  On would-block nothing but
\* ADMIN_SESSION_ACCEPT changes: not the backlog, the slab, the waker, the
\* listen queue, ADMIN_SESSION_ACCEPT_OK, ADMIN_SESSION_ACCEPT_EX or
\* ADMIN_SESSION_CURR.  A waker event, which starts from an empty backlog
\* and a waker reset, leaves one entry for each of its accepts that did not
\* would-block.
C15_AcceptRequeues ==
    /\ [][HandlerStep /\ ev'.kind = "listener"
            => /\ Len(ev'.accepts) = 1
               /\ ADMIN_SESSION_ACCEPT' = ADMIN_SESSION_ACCEPT + 1
               /\ ev'.accepts[1] # "wouldblock"
                    => /\ backlog' = Append(backlog, LISTENER_TOKEN)
                       /\ waker'
               /\ ev'.accepts[1] = "wouldblock"
                    => /\ UNCHANGED <<backlog, sessions, slab_free, waker,
                                      listenq, enqueued>>
                       /\ metrics' = [metrics EXCEPT
                                        !.ADMIN_SESSION_ACCEPT = @ + 1]]_vars
    /\ [][HandlerStep /\ ev'.kind = "waker"
            => /\ backlog' = [i \in 1 .. Cardinality(Retried(ev')) |->
                                LISTENER_TOKEN]
               /\ waker' = (Retried(ev') # {})
               /\ ADMIN_SESSION_ACCEPT'
                    = ADMIN_SESSION_ACCEPT + Len(ev'.accepts)]_vars

\* an accept of the listener's event has found the queue empty, and has
\* left the entry and the wake-up of an accept before it as they were
C15_Witness ==
    /\ ev.kind = "listener"
    /\ ev.accepts = <<"wouldblock">>
    /\ backlog = <<LISTENER_TOKEN>>
    /\ waker
    /\ ADMIN_SESSION_ACCEPT = 2
    /\ ADMIN_SESSION_ACCEPT_OK = 1
    /\ ADMIN_SESSION_ACCEPT_EX = 0

\* the entries of a backlog that name the listener
ListenerEntries(b) == {i \in DOMAIN b : b[i] = LISTENER_TOKEN}

\* C16: a waker event calls accept once for each LISTENER_TOKEN of the
\* backlog as it finds it, and no more: what those accepts push is not
\* handled in the same event, it is the whole backlog the event leaves.  The
\* waker is reset before the backlog is drained, so the wake-ups of those
\* accepts outlive the event: the waker is armed whenever the backlog holds
\* an entry.
C16_WakerDrainsOnce ==
    /\ [][HandlerStep /\ ev'.kind = "waker"
            => /\ Len(ev'.accepts) = Cardinality(ListenerEntries(backlog))
               /\ ADMIN_SESSION_ACCEPT'
                    = ADMIN_SESSION_ACCEPT + Cardinality(ListenerEntries(backlog))
               /\ Len(backlog') = Cardinality(Retried(ev'))
               /\ Len(backlog') <= Len(backlog)
               /\ backlog' # <<>> => waker']_vars
    /\ [](backlog # <<>> => waker)

\* a waker event has drained two entries and called accept twice; the one
\* accept that did not would-block has left an entry and the waker armed
C16_Witness ==
    /\ ev.kind = "waker"
    /\ Len(ev.accepts) = 2
    /\ ev.accepts[2] = "wouldblock"
    /\ backlog = <<LISTENER_TOKEN>>
    /\ waker

\* C17: an event that is writable and readable (and no error) on an open
\* session flushes before it fills.  A flush that fails with an error other
\* than would-block closes the session, and the event attempts no fill and
\* no handshake and counts no read; after a flush that succeeds or would
\* block the read is counted and its fill attempted.
C17_WriteBeforeRead ==
    [][HandlerStep /\ ev'.kind = "session" /\ ev'.tok \in DOMAIN sessions
         /\ ~ev'.flags.error /\ ev'.flags.writable /\ ev'.flags.readable
         => /\ ev'.wflush \in {"Ok", "WouldBlock", "Err"}
            /\ ADMIN_EVENT_WRITE' = ADMIN_EVENT_WRITE + 1
            /\ ev'.wflush = "Err"
                 => /\ ev'.closed /\ ~Open'
                    /\ ev'.fill = "none" /\ ev'.parse = "none"
                    /\ ev'.hs = "none"
                    /\ ADMIN_EVENT_READ' = ADMIN_EVENT_READ
                    /\ ADMIN_SESSION_CLOSE' = ADMIN_SESSION_CLOSE + 1
            /\ ev'.wflush # "Err"
                 => /\ ev'.fill # "none"
                    /\ ADMIN_EVENT_READ' = ADMIN_EVENT_READ + 1]_vars

\* a flush has failed in an event that was readable too: the session is
\* closed and nothing was read
C17_Witness ==
    /\ ev.kind = "session"
    /\ ev.flags = [error |-> FALSE, readable |-> TRUE, writable |-> TRUE]
    /\ ev.wflush = "Err"
    /\ ev.closed
    /\ ev.fill = "none"
    /\ ADMIN_EVENT_WRITE = 1
    /\ ADMIN_EVENT_READ = 1

\* C18: an event flagged as error adds one to ADMIN_EVENT_ERROR and closes
\* its session, whatever its other flags are: no write, read or handshake
\* is attempted, ADMIN_EVENT_WRITE and ADMIN_EVENT_READ stay as they are,
\* and no response is enqueued.
C18_ErrorEventCloses ==
    [][HandlerStep /\ ev'.kind = "session" /\ ev'.flags.error
         => /\ ADMIN_EVENT_ERROR' = ADMIN_EVENT_ERROR + 1
            /\ ADMIN_EVENT_WRITE' = ADMIN_EVENT_WRITE
            /\ ADMIN_EVENT_READ' = ADMIN_EVENT_READ
            /\ ev'.wflush = "none" /\ ev'.fill = "none"
            /\ ev'.parse = "none" /\ ev'.hs = "none"
            /\ enqueued' = enqueued
            /\ DOMAIN sessions' = DOMAIN sessions \ {ev'.tok}
            /\ \A t \in DOMAIN sessions' : sessions'[t] = sessions[t]
            /\ ev'.tok \in DOMAIN sessions
                 => /\ ev'.closed
                    /\ ADMIN_SESSION_CLOSE' = ADMIN_SESSION_CLOSE + 1
                    /\ ADMIN_SESSION_CURR' = ADMIN_SESSION_CURR - 1]_vars

\* an event flagged error, readable and writable has closed a session that
\* an event before it had read from
C18_Witness ==
    /\ ev.kind = "session"
    /\ ev.flags = [error |-> TRUE, readable |-> TRUE, writable |-> TRUE]
    /\ ev.closed
    /\ ADMIN_EVENT_ERROR = 1
    /\ ADMIN_EVENT_READ = 1
    /\ ADMIN_EVENT_WRITE = 0
    /\ ADMIN_SESSION_CLOSE = 1

\* the calls of accept of the last handler that ended as what
Accepts(e, what) == {i \in DOMAIN e.accepts : e.accepts[i] = what}

\* C19: a connection that is accepted and cannot be registered is dropped.
\* The listener's event that meets one takes it off the listen queue,
\* inserts nothing in the slab, adds one to ADMIN_SESSION_ACCEPT_EX and
\* leaves ADMIN_SESSION_ACCEPT_OK, ADMIN_SESSION_CURR and the open sessions
\* as they are; the listener is queued for another visit and run goes on.
\* Over all the accepts of any event: the slab and the gauge grow by the
\* connections registered, ADMIN_SESSION_ACCEPT_EX by those that were not
\* and by the accepts that failed, and no open session changes.
C19_RegisterFailureDrops ==
    /\ [][HandlerStep /\ ev'.kind = "listener" /\ ev'.accepts = <<"regfail">>
            => /\ listenq' = listenq - 1
               /\ sessions' = sessions
               /\ slab_free' = slab_free
               /\ enqueued' = enqueued
               /\ metrics' = [metrics EXCEPT
                                !.ADMIN_SESSION_ACCEPT = @ + 1,
                                !.ADMIN_SESSION_ACCEPT_EX = @ + 1]
               /\ backlog' = Append(backlog, LISTENER_TOKEN)
               /\ waker'
               /\ pc' \in {"events", "signals"}]_vars
    /\ [][HandlerStep /\ ev'.kind \in {"listener", "waker"}
            => /\ Cardinality(DOMAIN sessions')
                    = Cardinality(DOMAIN sessions)
                      + Cardinality(Accepts(ev', "ok"))
               /\ ADMIN_SESSION_ACCEPT_OK'
                    = ADMIN_SESSION_ACCEPT_OK + Cardinality(Accepts(ev', "ok"))
               /\ ADMIN_SESSION_CURR'
                    = ADMIN_SESSION_CURR + Cardinality(Accepts(ev', "ok"))
               /\ ADMIN_SESSION_ACCEPT_EX'
                    = ADMIN_SESSION_ACCEPT_EX
                      + Cardinality(Accepts(ev', "regfail"))
                      + Cardinality(Accepts(ev', "error"))
               /\ \A t \in DOMAIN sessions :
                    t \in DOMAIN sessions' /\ sessions'[t] = sessions[t]]_vars

\* the second connection could not be registered: the first is the one
\* session of the slab
C19_Witness ==
    /\ ev.kind = "listener"
    /\ ev.accepts = <<"regfail">>
    /\ Cardinality(DOMAIN sessions) = 1
    /\ ADMIN_SESSION_ACCEPT_OK = 1
    /\ ADMIN_SESSION_ACCEPT_EX = 1
    /\ ADMIN_SESSION_CURR = 1
    /\ listenq = 0
    /\ pc # "returned"

\* C20: an event (not flagged error) on an open session that its write and
\* its read do not close ends with one handshake step.  A step that would
\* block leaves the session open and as it was, and reregisters nothing; any
\* other error of the step closes the session; after a step that succeeds
\* the session is reregistered, with its current interest, exactly when its
\* inbound buffer holds bytes that are not consumed, and a reregister that
\* fails closes it.
C20_HandshakeEndsEvent ==
    [][HandlerStep /\ ev'.kind = "session" /\ ~ev'.flags.error
         /\ ev'.tok \in DOMAIN sessions
         => LET t == ev'.tok IN
            /\ ev'.hs = "none" => ev'.closed /\ ev'.hsrereg = "none"
            /\ ev'.hs = "WouldBlock"
                 => /\ Open' /\ ~ev'.closed
                    /\ sessions'[t] = sessions[t]
                    /\ ev'.hsrereg = "none"
            /\ ev'.hs = "Err" => ev'.closed /\ ~Open' /\ ev'.hsrereg = "none"
            /\ ev'.hs = "Ok" /\ ev'.hsrereg = "Ok"
                 => /\ Open' /\ ~ev'.closed
                    /\ remaining(sessions'[t]) > 0
                    /\ sessions'[t].reg = interest(sessions'[t])
            /\ ev'.hs = "Ok" /\ ev'.hsrereg = "none"
                 => /\ Open' /\ ~ev'.closed
                    /\ remaining(sessions'[t]) = 0
            /\ ev'.hs = "Ok" /\ ev'.hsrereg = "Err" => ev'.closed /\ ~Open']_vars

\* the handshake step of an event has succeeded on a session whose inbound
\* buffer holds a request, and has reregistered it
C20_Witness ==
    /\ ev.kind = "session"
    /\ ev.hs = "Ok"
    /\ ev.hsrereg = "Ok"
    /\ Open
    /\ sessions[ev.tok].rbuf # <<>>
    /\ sessions[ev.tok].reg = interest(sessions[ev.tok])

\* C21: whenever run is about to poll, a backlog that is not empty goes
\* with an armed waker, wake() having been called since the last reset():
\* the poll has a WAKER_TOKEN event to report for the entries, all of which
\* name the listener.
C21_BacklogHasWaker ==
    pc = "poll" /\ backlog # <<>>
      => /\ waker
         /\ \A i \in DOMAIN backlog : backlog[i] = LISTENER_TOKEN

\* run is about to poll with two entries in the backlog, pushed by the
\* accepts of two iterations, and the waker armed
C21_Witness ==
    /\ pc = "poll"
    /\ backlog = <<LISTENER_TOKEN, LISTENER_TOKEN>>
    /\ waker
    /\ ADMIN_SESSION_ACCEPT = 2

\* C22: a session event whose token has no session in the slab, and so every
\* close it calls, leaves the slab, ADMIN_SESSION_CLOSE and
\* ADMIN_SESSION_CURR as they are.  No session is counted as closed twice:
\* every step adds to ADMIN_SESSION_CLOSE the number of sessions it takes
\* out of the slab, no key is vacant twice, and no more sessions have been
\* closed than accepted.
C22_CloseOnce ==
    /\ [][HandlerStep /\ ev'.kind = "session" /\ ev'.tok \notin DOMAIN sessions
            => /\ sessions' = sessions
               /\ slab_free' = slab_free
               /\ ADMIN_SESSION_CLOSE' = ADMIN_SESSION_CLOSE
               /\ ADMIN_SESSION_CURR' = ADMIN_SESSION_CURR
               /\ enqueued' = enqueued
               /\ ~ev'.closed]_vars
    /\ [][ADMIN_SESSION_CLOSE' - ADMIN_SESSION_CLOSE
            = Cardinality(DOMAIN sessions \ DOMAIN sessions')]_vars
    /\ [](/\ ADMIN_SESSION_CLOSE <= ADMIN_SESSION_ACCEPT_OK
          /\ \A i, j \in DOMAIN slab_free :
               i # j => slab_free[i] # slab_free[j]
          /\ \A i \in DOMAIN slab_free : slab_free[i] \notin DOMAIN sessions)

\* an event flagged error and readable has come for a session that an event
\* before it had closed: it is counted, and closes nothing
C22_Witness ==
    /\ ev.kind = "session"
    /\ ev.tok \notin DOMAIN sessions
    /\ ~ev.closed
    /\ ev.flags.error /\ ev.flags.readable
    /\ ADMIN_EVENT_ERROR = 2
    /\ ADMIN_SESSION_ACCEPT_OK = 1
    /\ ADMIN_SESSION_CLOSE = 1
    /\ ADMIN_SESSION_CURR = 0

\* the accept attempts counted neither as accepted nor as failed
Uncounted(m) ==
    m.ADMIN_SESSION_ACCEPT - m.ADMIN_SESSION_ACCEPT_OK
      - m.ADMIN_SESSION_ACCEPT_EX

\* C23: in every state ADMIN_SESSION_CURR is ADMIN_SESSION_ACCEPT_OK less
\* ADMIN_SESSION_CLOSE and is not negative, and ADMIN_SESSION_ACCEPT_OK and
\* ADMIN_SESSION_ACCEPT_EX together are at most ADMIN_SESSION_ACCEPT; what
\* they fall short by is the number of accepts that would block: it starts
\* at 0 and every step adds to it the accepts of the step that would block.
C23_CounterBalance ==
    /\ [](/\ ADMIN_SESSION_CURR = ADMIN_SESSION_ACCEPT_OK - ADMIN_SESSION_CLOSE
          /\ ADMIN_SESSION_CURR >= 0
          /\ ADMIN_SESSION_ACCEPT_OK + ADMIN_SESSION_ACCEPT_EX
               <= ADMIN_SESSION_ACCEPT)
    /\ (Uncounted(metrics) = 0)
    /\ [][Uncounted(metrics') - Uncounted(metrics)
            = IF HandlerStep /\ ev'.kind \in {"listener", "waker"}
              THEN Cardinality(Accepts(ev', "wouldblock"))
              ELSE 0]_vars

\* of three accepts one has returned a connection that was closed since,
\* one a connection that could not be registered, and one would block
C23_Witness ==
    /\ ADMIN_SESSION_ACCEPT = 3
    /\ ADMIN_SESSION_ACCEPT_OK = 1
    /\ ADMIN_SESSION_ACCEPT_EX = 1
    /\ ADMIN_SESSION_CLOSE = 1
    /\ ADMIN_SESSION_CURR = 0
    /\ ev.kind = "waker"
    /\ ev.accepts = <<"wouldblock">>

\* C24: the step that takes a Shutdown off the signal queue, with which run
\* returns, closes no session: the slab is as it was, with every session
\* that was open in it, and so are ADMIN_SESSION_CLOSE and
\* ADMIN_SESSION_CURR; and once run has returned none of them changes.
C24_ShutdownClosesNothing ==
    /\ [][SignalStep /\ Head(signal_queue_rx) = "Shutdown"
            => /\ pc' = "returned"
               /\ sessions' = sessions
               /\ slab_free' = slab_free
               /\ enqueued' = enqueued
               /\ ADMIN_SESSION_CLOSE' = ADMIN_SESSION_CLOSE
               /\ ADMIN_SESSION_CURR' = ADMIN_SESSION_CURR
               /\ ~ev'.closed]_vars
    /\ [][pc = "returned" => UNCHANGED <<pc, sessions, slab_free, metrics>>]_vars

\* run has returned with one session open, after another was closed
C24_Witness ==
    /\ pc = "returned"
    /\ Cardinality(DOMAIN sessions) = 1
    /\ ADMIN_SESSION_ACCEPT_OK = 2
    /\ ADMIN_SESSION_CLOSE = 1
    /\ ADMIN_SESSION_CURR = 1

====
